---- MODULE Spec2Model ----
(***************************************************************************)
(* A model of the vitepress-blog repository: the sidebar generator         *)
(* (.vitepress/helpers/sidebar.ts) and the post scaffolder (.bin/new.js).  *)
(*                                                                         *)
(* Strings are sequences of one-character strings, so that the regular     *)
(* expressions, path functions and comparisons of the source are computed  *)
(* character by character.                                                 *)
(***************************************************************************)
EXTENDS Integers, Sequences, FiniteSets, TLC

VARIABLES
    fn,        \* the pending call of a pure helper: [op, name, base]
    fnOut,     \* its return value, or NotRun
    root,      \* what the content root path is: "dir", "missing", "file", "noread"
    tree,      \* the content tree: path (sequence of entry names) -> node
    rev,       \* whether readdirSync lists entries in descending slot order
    call,      \* the arguments of generateSidebar, or NotRun
    sidebar,   \* what generateSidebar produced, or NotRun
    pc,        \* scaffolder: the position of each invocation
    disk,      \* scaffolder: the part of the filesystem the invocations touch
    made       \* scaffolder: what each invocation has created on disk

vars == <<fn, fnOut, root, tree, rev, call, sidebar, pc, disk, made>>

NotRun == [state |-> "NotRun"]

---------------------------------------------------------------------------
(* Characters and the JavaScript string primitives the source uses.        *)

Lower == <<"a","b","c","d","e","f","g","h","i","j","k","l","m",
           "n","o","p","q","r","s","t","u","v","w","x","y","z">>
Upper == <<"A","B","C","D","E","F","G","H","I","J","K","L","M",
           "N","O","P","Q","R","S","T","U","V","W","X","Y","Z">>
Digits == {"0","1","2","3","4","5","6","7","8","9"}

Range(s) == {s[i] : i \in DOMAIN s}
IsLower(c) == c \in Range(Lower)
IsUpper(c) == c \in Range(Upper)
LetterIndex(c) == CHOOSE i \in 1..26 : Lower[i] = c \/ Upper[i] = c

\* String.prototype.toUpperCase / toLowerCase on one character
toUpperCase(c) == IF IsLower(c) THEN Upper[LetterIndex(c)] ELSE c
toLowerCase(c) == IF IsUpper(c) THEN Lower[LetterIndex(c)] ELSE c
LowerCased(s) == [i \in 1..Len(s) |-> toLowerCase(s[i])]

\* the regular-expression class \w
IsWordChar(c) == IsLower(c) \/ IsUpper(c) \/ c \in Digits \/ c = "_"

\* String.prototype.trim (the only white space of the model is the blank)
RECURSIVE trim(_)
trim(s) ==
    IF s = <<>> THEN s
    ELSE IF s[1] = " " THEN trim(Tail(s))
    ELSE IF s[Len(s)] = " " THEN trim(SubSeq(s, 1, Len(s) - 1))
    ELSE s

\* the index of the last "." of s, 0 when there is none
LastDot(s) ==
    IF \E i \in 1..Len(s) : s[i] = "."
    THEN CHOOSE i \in 1..Len(s) : s[i] = "." /\ \A j \in (i+1)..Len(s) : s[j] # "."
    ELSE 0

\* String.prototype.startsWith / endsWith
startsWith(s, p) == Len(s) >= Len(p) /\ SubSeq(s, 1, Len(p)) = p
endsWith(s, p) == Len(s) >= Len(p) /\ SubSeq(s, Len(s) - Len(p) + 1, Len(s)) = p

---------------------------------------------------------------------------
(* cleanName, sidebar.ts 15-21                                             *)

\* name.replace(/\.\w+$/, '')
stripExtension(s) ==
    LET d == LastDot(s) IN
    IF d > 0 /\ d < Len(s) /\ \A j \in (d+1)..Len(s) : IsWordChar(s[j])
    THEN SubSeq(s, 1, d - 1)
    ELSE s

\* the length of the leading run of digits
DigitRun(s) ==
    CHOOSE k \in 0..Len(s) :
        /\ \A i \in 1..k : s[i] \in Digits
        /\ (k = Len(s) \/ s[k+1] \notin Digits)

\* cleaned.replace(/^(\d+[_-]|[_-])/, '')
stripOrderingPrefix(s) ==
    LET k == DigitRun(s) IN
    IF k >= 1 /\ k < Len(s) /\ s[k+1] \in {"_", "-"}
    THEN SubSeq(s, k + 2, Len(s))
    ELSE IF s # <<>> /\ s[1] \in {"_", "-"} THEN Tail(s)
    ELSE s

\* cleaned.replace(/[-_]/g, ' ')
replaceSeparators(s) == [i \in 1..Len(s) |-> IF s[i] \in {"-", "_"} THEN " " ELSE s[i]]

\* titleCase with the rest of each word put in lower case
titleCase_lowersRest(s) ==
    [i \in 1..Len(s) |->
        IF IsWordChar(s[i]) /\ (i = 1 \/ ~IsWordChar(s[i-1]))
        THEN toUpperCase(s[i])
        ELSE toLowerCase(s[i])]

\* cleaned.replace(/\b\w/g, char => char.toUpperCase())
titleCase(s) ==
    [i \in 1..Len(s) |->
        IF IsWordChar(s[i]) /\ (i = 1 \/ ~IsWordChar(s[i-1]))
        THEN toUpperCase(s[i])
        ELSE s[i]]

cleanName(name) ==
    LET cleaned == trim(titleCase(replaceSeparators(stripOrderingPrefix(stripExtension(name)))))
    IN IF cleaned # <<>> THEN cleaned ELSE name

---------------------------------------------------------------------------
(* getFileLink, sidebar.ts 30-42                                           *)

contentBaseUrl == <<"/">>

\* path.extname of an entry name (a path without separators)
extname(p) ==
    LET d == LastDot(p) IN
    IF d = 0 \/ d = 1 \/ p = <<".", ".">> THEN <<>>
    ELSE SubSeq(p, d, Len(p))

\* /^(index|readme)$/i.test(s)
IsIndexName(s) ==
    LowerCased(s) \in {<<"i","n","d","e","x">>, <<"r","e","a","d","m","e">>}

getFileLink(filePath, baseUrl) ==
    LET fileExtension == extname(filePath)
        fileNameWithoutExtension == SubSeq(filePath, 1, Len(filePath) - Len(fileExtension))
    IN IF IsIndexName(fileNameWithoutExtension)
       THEN IF baseUrl = contentBaseUrl \o <<"i","n","d","e","x","/">>
            THEN contentBaseUrl
            ELSE baseUrl
       ELSE baseUrl \o fileNameWithoutExtension

---------------------------------------------------------------------------
(* String.prototype.localeCompare: the default (root) collation.  Blank    *)
(* and punctuation sort before digits, digits before letters; strings are  *)
(* compared on these primary weights first and, when they agree there, on  *)
(* letter case, lower case first.                                          *)

Punctuation == <<" ", "_", "-", ",", ".", "/">>
DigitSeq == <<"0","1","2","3","4","5","6","7","8","9">>

PrimaryWeight(c) ==
    IF c \in Range(Punctuation) THEN CHOOSE i \in 1..Len(Punctuation) : Punctuation[i] = c
    ELSE IF c \in Digits THEN 10 + (CHOOSE i \in 1..10 : DigitSeq[i] = c)
    ELSE 30 + LetterIndex(c)

localeCompare(a, b) ==
    LET n == IF Len(a) < Len(b) THEN Len(a) ELSE Len(b)
        pdiff == {i \in 1..n : PrimaryWeight(a[i]) # PrimaryWeight(b[i])}
        cdiff == {i \in 1..n : a[i] # b[i]}
        First(S) == CHOOSE i \in S : \A j \in S : i <= j
    IN IF pdiff # {}
       THEN IF PrimaryWeight(a[First(pdiff)]) < PrimaryWeight(b[First(pdiff)]) THEN -1 ELSE 1
       ELSE IF Len(a) # Len(b) THEN IF Len(a) < Len(b) THEN -1 ELSE 1
       ELSE IF cdiff # {} THEN IF IsLower(a[First(cdiff)]) THEN -1 ELSE 1
       ELSE 0

---------------------------------------------------------------------------
(* Array.prototype.sort as the engine runs it on a short array: the        *)
(* leading run is found (and reversed when strictly descending), the rest  *)
(* is placed by binary insertion.  The comparator is tabulated first, so   *)
(* that a comparator that is no total order (sidebar.ts 70-77, when a stat *)
(* fails) still yields the order the algorithm produces.                   *)

Reverse(s) == [i \in 1..Len(s) |-> s[Len(s) + 1 - i]]

RECURSIVE binarySearch(_, _, _, _, _)
binarySearch(m, idx, p, left, right) ==
    IF left >= right THEN left
    ELSE LET mid == left + ((right - left) \div 2) IN
         IF m[p, idx[mid + 1]] < 0 THEN binarySearch(m, idx, p, left, mid)
         ELSE binarySearch(m, idx, p, mid + 1, right)

RECURSIVE binaryInsertionSort(_, _, _)
binaryInsertionSort(m, idx, start) ==
    IF start > Len(idx) THEN idx
    ELSE LET p == idx[start]
             left == binarySearch(m, idx, p, 0, start - 1)
         IN binaryInsertionSort(m,
                SubSeq(idx, 1, left) \o <<p>> \o SubSeq(idx, left + 1, start - 1)
                    \o SubSeq(idx, start + 1, Len(idx)),
                start + 1)

countRun(m, n) ==
    IF n < 2 THEN n
    ELSE LET desc == m[2, 1] < 0
             ok(i) == IF desc THEN m[i, i-1] < 0 ELSE m[i, i-1] >= 0
         IN CHOOSE r \in 2..n : (\A i \in 3..r : ok(i)) /\ (r = n \/ ~ok(r + 1))

arraySort(s, m) ==
    LET n == Len(s)
        run == countRun(m, n)
        ident == [i \in 1..n |-> i]
        idx0 == IF n >= 2 /\ m[2, 1] < 0
                THEN Reverse(SubSeq(ident, 1, run)) \o SubSeq(ident, run + 1, n)
                ELSE ident
        idx == binaryInsertionSort(m, idx0, run + 1)
    IN [k \in 1..n |-> s[idx[k]]]

---------------------------------------------------------------------------
(* The filesystem as the generator reads it.  A path is the sequence of    *)
(* entry names below the content root; the root itself is <<>>.            *)

\* what statSync / readdirSync / readFileSync see at a path
Node(p) ==
    IF p = <<>>
    THEN [kind |-> IF root = "file" THEN "file" ELSE "dir",
          stat |-> root # "missing",
          read |-> root = "dir"]
    ELSE tree[p]

\* statThrows for entries that are there, whatever their stat does
statThrows_ignoresFailure(p) == p # <<>> /\ p \notin DOMAIN tree

\* fs.statSync(p) throws
statThrows(p) == (p # <<>> /\ p \notin DOMAIN tree) \/ ~Node(p).stat

\* existsSync that never says no
existsSync_always(p) == TRUE

\* fs.existsSync(p): false on every error
existsSync(p) == ~statThrows(p)

isDirectory(p) == Node(p).kind = "dir"
isFile(p) == Node(p).kind = "file"

\* every entry name of the model, in the order readdirSync lists them
\* (descending when rev): the order of a directory listing is the
\* filesystem's, not alphabetical
N_index_md == <<"i","n","d","e","x",".","m","d">>
N_README_md == <<"R","E","A","D","M","E",".","m","d">>
N_a_md == <<"a",".","m","d">>
N_a_MD == <<"a",".","M","D">>
N_b_md == <<"b",".","m","d">>
N_n_txt == <<"n",".","t","x","t">>
N_hid_md == <<".","h",".","m","d">>
N_g == <<"g">>
N_1g == <<"1","-","g">>
N_index == <<"i","n","d","e","x">>
N_m == <<"m">>
N_e == <<"e">>
N_hid == <<".","h">>

EntryNames == <<N_n_txt, N_g, N_a_md, N_index_md, N_1g, N_README_md, N_hid,
                N_a_MD, N_index, N_m, N_b_md, N_e, N_hid_md>>

EntryIndex(n) == CHOOSE i \in 1..Len(EntryNames) : EntryNames[i] = n

\* fs.readdirSync(p) of a readable directory
listed(a, b) == IF rev THEN EntryIndex(b) - EntryIndex(a) ELSE EntryIndex(a) - EntryIndex(b)

\* the names of a set, in the order of a listing
inListingOrder(names) ==
    CHOOSE s \in [1..Cardinality(names) -> names] :
        /\ Range(s) = names
        /\ \A i, j \in DOMAIN s : i < j => listed(s[i], s[j]) < 0

readdirSync(p) ==
    inListingOrder({q[Len(q)] : q \in {q \in DOMAIN tree :
                        Len(q) = Len(p) + 1 /\ SubSeq(q, 1, Len(p)) = p}})

---------------------------------------------------------------------------
(* Front matter.  A field is absent, a string or a list of strings; a file *)
(* whose read or front-matter parse fails has read = FALSE.                *)

Absent == [type |-> "absent"]
Str(s) == [type |-> "string", value |-> s]
List(l) == [type |-> "list", value |-> l]

\* String.prototype.split(sep) for a one-character separator
RECURSIVE split(_, _)
split(s, sep) ==
    IF \E i \in 1..Len(s) : s[i] = sep
    THEN LET i == CHOOSE k \in 1..Len(s) : s[k] = sep /\ \A j \in 1..(k-1) : s[j] # sep
         IN <<SubSeq(s, 1, i - 1)>> \o split(SubSeq(s, i + 1, Len(s)), sep)
    ELSE <<s>>

\* .filter(Boolean) on an array of strings
RECURSIVE filterBoolean(_)
filterBoolean(l) ==
    IF l = <<>> THEN <<>>
    ELSE IF Head(l) = <<>> THEN filterBoolean(Tail(l))
    ELSE <<Head(l)>> \o filterBoolean(Tail(l))

\* sidebar.ts 108-110 and 188-190: the title when it is a non-blank string
hasTitle(node) == node.title.type = "string" /\ trim(node.title.value) # <<>>

\* fileTags that reads a list only
fileTags_listOnly(node) ==
    LET tags == node.tags IN
    IF tags.type = "list"
    THEN filterBoolean([i \in 1..Len(tags.value) |-> trim(tags.value[i])])
    ELSE <<>>

\* sidebar.ts 176-183
fileTags(node) ==
    LET tags == node.tags IN
    IF tags.type = "string" /\ tags.value # <<>>
    THEN filterBoolean([i \in 1..Len(split(tags.value, ",")) |-> trim(split(tags.value, ",")[i])])
    ELSE IF tags.type = "list"
    THEN filterBoolean([i \in 1..Len(tags.value) |-> trim(tags.value[i])])
    ELSE <<>>

---------------------------------------------------------------------------
(* generateSidebarItems, sidebar.ts 50-125.  A call returns its items, or  *)
(* throws (threw = TRUE) when the statSync of line 51 throws.              *)

Leaf(text, link) == [text |-> text, link |-> link]
Group(text, items) == [text |-> text, items |-> items, collapsed |-> TRUE]
IsGroup(item) == "items" \in DOMAIN item
IsLeaf(item) == "link" \in DOMAIN item

\* /^(index|readme)\.md$/i.test(entry)
IsIndexMd(entry) ==
    LowerCased(entry) \in {<<"i","n","d","e","x",".","m","d">>,
                           <<"r","e","a","d","m","e",".","m","d">>}

\* entry.toLowerCase().endsWith('.md')
IsMarkdown(entry) == endsWith(LowerCased(entry), <<".","m","d">>)

\* the comparator of entries.sort, sidebar.ts 64-78
entryCompare(dirPath, a, b) ==
    LET fullPathA == Append(dirPath, a)
        fullPathB == Append(dirPath, b)
    IN IF IsIndexMd(a) # IsIndexMd(b) THEN (IF IsIndexMd(a) THEN -1 ELSE 1)
       ELSE IF ~statThrows(fullPathA) /\ ~statThrows(fullPathB)
               /\ isDirectory(fullPathA) # isDirectory(fullPathB)
       THEN (IF isDirectory(fullPathA) THEN -1 ELSE 1)
       ELSE localeCompare(a, b)

\* sidebar.ts 54-57 and 154-156
withSlash(baseUrl) == IF endsWith(baseUrl, <<"/">>) THEN baseUrl ELSE baseUrl \o <<"/">>

\* sidebar.ts 104-113: the text of a file's leaf in the structural walk
leafText(entry, fullPath) ==
    IF Node(fullPath).read /\ hasTitle(Node(fullPath))
    THEN trim(Node(fullPath).title.value)
    ELSE cleanName(entry)

\* keepsGroup that keeps every sub-directory
keepsGroup_always(subItems) == TRUE

\* sidebar.ts 93: a sub-directory becomes a group only when it has items
keepsGroup(subItems) == Len(subItems) > 0

\* entries.sort(...), sidebar.ts 64-78
sortEntries(dirPath, entries) ==
    arraySort(entries, [i \in DOMAIN entries, j \in DOMAIN entries |->
                           entryCompare(dirPath, entries[i], entries[j])])

RECURSIVE generateSidebarItems(_, _)
RECURSIVE sidebarForEach(_, _, _, _)
RECURSIVE pushSubGroup(_, _, _, _, _, _)

\* sidebar.ts 91-99: what the loop does with the items of a sub-directory
pushSubGroup(dirPath, baseUrl, entry, rest, items, sub) ==
    IF sub.threw THEN items   \* caught at line 121: the loop ends
    ELSE IF keepsGroup(sub.items)
    THEN sidebarForEach(dirPath, baseUrl, rest,
                        Append(items, Group(cleanName(entry), sub.items)))
    ELSE sidebarForEach(dirPath, baseUrl, rest, items)

\* the body of entries.forEach, sidebar.ts 80-120, from the entries left
sidebarForEach(dirPath, baseUrl, entries, items) ==
    IF entries = <<>> THEN items
    ELSE
      LET entry == Head(entries)
          rest == Tail(entries)
          fullPath == Append(dirPath, entry)
      IN IF startsWith(entry, <<".">>) THEN sidebarForEach(dirPath, baseUrl, rest, items)
         ELSE IF statThrows(fullPath) THEN sidebarForEach(dirPath, baseUrl, rest, items)
         ELSE IF isDirectory(fullPath)
         THEN pushSubGroup(dirPath, baseUrl, entry, rest, items,
                           generateSidebarItems(fullPath, baseUrl \o entry \o <<"/">>))
         ELSE IF isFile(fullPath) /\ IsMarkdown(entry)
         THEN sidebarForEach(dirPath, baseUrl, rest,
                  Append(items, Leaf(leafText(entry, fullPath), getFileLink(entry, baseUrl))))
         ELSE sidebarForEach(dirPath, baseUrl, rest, items)

generateSidebarItems(dirPath, baseUrl) ==
    IF ~existsSync(dirPath) THEN [threw |-> FALSE, items |-> <<>>]
    ELSE IF statThrows(dirPath) THEN [threw |-> TRUE, items |-> <<>>]
    ELSE IF ~isDirectory(dirPath) THEN [threw |-> FALSE, items |-> <<>>]
    ELSE IF ~Node(dirPath).read THEN [threw |-> FALSE, items |-> <<>>]  \* caught at 121
    ELSE [threw |-> FALSE,
          items |-> sidebarForEach(dirPath, withSlash(baseUrl),
                                   sortEntries(dirPath, readdirSync(dirPath)), <<>>)]

---------------------------------------------------------------------------
(* scanFilesForTags, sidebar.ts 145-214.  tagsMap is the Map in insertion  *)
(* order: a sequence of [tag, pages].                                      *)

\* path.relative(scanRoot, fullPath).replace(/\\/g, '/')
RECURSIVE relativePath(_)
relativePath(fullPath) ==
    IF Len(fullPath) = 1 THEN fullPath[1]
    ELSE fullPath[1] \o <<"/">> \o relativePath(Tail(fullPath))

\* sidebar.ts 194-204 for one tag
addTagPage(tagsMap, tag, page) ==
    LET tagName == trim(tag)
        withKey == IF \E i \in 1..Len(tagsMap) : tagsMap[i].tag = tagName
                   THEN tagsMap
                   ELSE Append(tagsMap, [tag |-> tagName, pages |-> <<>>])
        k == CHOOSE i \in 1..Len(withKey) : withKey[i].tag = tagName
        tagPages == withKey[k].pages
    IN IF \E i \in 1..Len(tagPages) : tagPages[i].link = page.link
       THEN withKey
       ELSE [withKey EXCEPT ![k].pages = Append(tagPages, page)]

\* fileTags.forEach, sidebar.ts 194-204
RECURSIVE addTagPages(_, _, _)
addTagPages(tagsMap, tags, page) ==
    IF tags = <<>> THEN tagsMap
    ELSE addTagPages(addTagPage(tagsMap, Head(tags), page), Tail(tags), page)

\* sidebar.ts 171-208 for one markdown file
scanFile(entry, fullPath, baseUrl, tagsMap) ==
    LET node == Node(fullPath) IN
    IF ~node.read THEN tagsMap            \* caught at line 206
    ELSE IF Len(fileTags(node)) > 0
    THEN addTagPages(tagsMap, fileTags(node),
             [link |-> getFileLink(entry, baseUrl),
              text |-> IF hasTitle(node) THEN trim(node.title.value) ELSE cleanName(entry),
              relativePath |-> relativePath(fullPath)])
    ELSE tagsMap

RECURSIVE scanFilesForTags(_, _, _)
RECURSIVE scanForEach(_, _, _, _)
RECURSIVE afterSubScan(_, _, _, _)

\* sidebar.ts 169: the loop after the scan of a sub-directory
afterSubScan(dirPath, baseUrl, rest, sub) ==
    IF sub.threw THEN sub.map   \* caught at line 211: the loop ends
    ELSE scanForEach(dirPath, baseUrl, rest, sub.map)

\* the body of entries.forEach, sidebar.ts 160-210, from the entries left
scanForEach(dirPath, baseUrl, entries, tagsMap) ==
    IF entries = <<>> THEN tagsMap
    ELSE
      LET entry == Head(entries)
          rest == Tail(entries)
          fullPath == Append(dirPath, entry)
      IN IF startsWith(entry, <<".">>) THEN scanForEach(dirPath, baseUrl, rest, tagsMap)
         ELSE IF statThrows(fullPath) THEN scanForEach(dirPath, baseUrl, rest, tagsMap)
         ELSE IF isDirectory(fullPath)
         THEN afterSubScan(dirPath, baseUrl, rest,
                           scanFilesForTags(fullPath, baseUrl \o entry \o <<"/">>, tagsMap))
         ELSE IF isFile(fullPath) /\ IsMarkdown(entry)
         THEN scanForEach(dirPath, baseUrl, rest, scanFile(entry, fullPath, baseUrl, tagsMap))
         ELSE scanForEach(dirPath, baseUrl, rest, tagsMap)

scanFilesForTags(dirPath, baseUrl, tagsMap) ==
    IF ~existsSync(dirPath) THEN [threw |-> FALSE, map |-> tagsMap]
    ELSE IF statThrows(dirPath) THEN [threw |-> TRUE, map |-> tagsMap]
    ELSE IF ~isDirectory(dirPath) THEN [threw |-> FALSE, map |-> tagsMap]
    ELSE IF ~Node(dirPath).read THEN [threw |-> FALSE, map |-> tagsMap]  \* caught at 211
    ELSE [threw |-> FALSE,
          map |-> scanForEach(dirPath, withSlash(baseUrl), readdirSync(dirPath), tagsMap)]

---------------------------------------------------------------------------
(* sidebarItemSorter and insertPageIntoStructure, sidebar.ts 219-271       *)

\* sidebarItemSorter that compares the texts only
sidebarItemSorter_textOnly(a, b) == localeCompare(a.text, b.text)

sidebarItemSorter(a, b) ==
    IF IsGroup(a) # IsGroup(b) THEN (IF IsGroup(a) THEN -1 ELSE 1)
    ELSE localeCompare(a.text, b.text)

\* parentItems.sort(sidebarItemSorter), sidebar.ts 255 and 269
sortItems(parentItems) ==
    arraySort(parentItems, [i \in DOMAIN parentItems, j \in DOMAIN parentItems |->
                               sidebarItemSorter(parentItems[i], parentItems[j])])

RECURSIVE insertPageIntoStructure(_, _, _, _)
insertPageIntoStructure(parentItems, segments, pageLink, pageText) ==
    IF Len(segments) = 0 THEN parentItems
    ELSE IF Len(segments) = 1
    THEN IF \E i \in 1..Len(parentItems) :
                IsLeaf(parentItems[i]) /\ parentItems[i].link = pageLink
         THEN parentItems
         ELSE sortItems(Append(parentItems, Leaf(pageText, pageLink)))
    ELSE LET dirName == cleanName(segments[1])
             found == {i \in 1..Len(parentItems) :
                          parentItems[i].text = dirName /\ IsGroup(parentItems[i])}
         IN IF found # {}
            THEN LET i == CHOOSE k \in found : \A j \in found : k <= j
                 IN [parentItems EXCEPT ![i].items =
                        insertPageIntoStructure(@, Tail(segments), pageLink, pageText)]
            ELSE sortItems(Append(parentItems,
                                  Group(dirName,
                                        insertPageIntoStructure(<<>>, Tail(segments),
                                                                pageLink, pageText))))

---------------------------------------------------------------------------
(* generateTagsSidebarGroup, sidebar.ts 281-324                            *)

\* pages.forEach, sidebar.ts 300-308
RECURSIVE insertPages(_, _)
insertPages(tagRootItems, pages) ==
    IF pages = <<>> THEN tagRootItems
    ELSE LET page == Head(pages)
             segments == filterBoolean(split(page.relativePath, "/"))
         IN insertPages(
                IF Len(segments) > 0
                THEN insertPageIntoStructure(tagRootItems, segments, page.link, page.text)
                ELSE tagRootItems,
                Tail(pages))

Null == [null |-> TRUE]

\* Array.from(tagsMap.keys()).sort((a, b) => a.localeCompare(b)), sidebar.ts 291
sortTags(keys) ==
    arraySort(keys, [i \in DOMAIN keys, j \in DOMAIN keys |-> localeCompare(keys[i], keys[j])])

\* sidebar.ts 293-316: one group per tag, in the order of sortedTags
tagItems(tagsMap, sortedTags) ==
    [i \in 1..Len(sortedTags) |->
        Group(sortedTags[i],
              insertPages(<<>>, tagsMap[CHOOSE k \in 1..Len(tagsMap) :
                                            tagsMap[k].tag = sortedTags[i]].pages))]

\* sidebar.ts 286-323, from the result of the scan
tagsGroup(scan) ==
    IF scan.threw THEN [threw |-> TRUE, group |-> Null]
    ELSE IF Len(scan.map) = 0 THEN [threw |-> FALSE, group |-> Null]
    ELSE [threw |-> FALSE,
          group |-> Group(<<"T","a","g","s">>,
                          tagItems(scan.map,
                                   sortTags([i \in 1..Len(scan.map) |-> scan.map[i].tag])))]

generateTagsSidebarGroup(baseUrl) == tagsGroup(scanFilesForTags(<<>>, baseUrl, <<>>))

---------------------------------------------------------------------------
(* generateSidebar, sidebar.ts 335-389                                     *)

\* .replace(/\/+/g, '/')
RECURSIVE collapseSlashes(_)
collapseSlashes(s) ==
    IF Len(s) < 2 THEN s
    ELSE IF s[1] = "/" /\ s[2] = "/" THEN collapseSlashes(Tail(s))
    ELSE <<s[1]>> \o collapseSlashes(Tail(s))

\* topLevelEntries.forEach, sidebar.ts 346-367: [threw, items]
RECURSIVE topLevelForEach(_, _, _)
RECURSIVE pushTopGroup(_, _, _, _, _)

\* sidebar.ts 358-364: a top-level directory becomes a group when it has items
pushTopGroup(baseUrl, entry, rest, sidebarItems, group) ==
    IF group.threw THEN [threw |-> TRUE, items |-> sidebarItems]
    ELSE IF Len(group.items) > 0
    THEN topLevelForEach(baseUrl, rest,
                         Append(sidebarItems, Group(cleanName(entry), group.items)))
    ELSE topLevelForEach(baseUrl, rest, sidebarItems)

topLevelForEach(baseUrl, entries, sidebarItems) ==
    IF entries = <<>> THEN [threw |-> FALSE, items |-> sidebarItems]
    ELSE
      LET entry == Head(entries)
          rest == Tail(entries)
          groupDirPath == <<entry>>
      IN IF startsWith(entry, <<".">>) THEN topLevelForEach(baseUrl, rest, sidebarItems)
         ELSE IF statThrows(groupDirPath) THEN topLevelForEach(baseUrl, rest, sidebarItems)
         ELSE IF isDirectory(groupDirPath)
         THEN pushTopGroup(baseUrl, entry, rest, sidebarItems,
                  generateSidebarItems(groupDirPath,
                                       collapseSlashes(baseUrl \o entry \o <<"/">>)))
         ELSE topLevelForEach(baseUrl, rest, sidebarItems)

\* the comparator of line 370
byText(a, b) == localeCompare(a.text, b.text)

\* sidebar.ts 341-374: the directory-derived groups
\* sidebarItems.sort(...), sidebar.ts 370, unless the loop threw
sortByText(walk) ==
    IF walk.threw THEN walk.items     \* caught at line 372, before the sort
    ELSE arraySort(walk.items, [i \in DOMAIN walk.items, j \in DOMAIN walk.items |->
                                   byText(walk.items[i], walk.items[j])])

structuralItems(baseUrl) ==
    IF statThrows(<<>>) \/ ~isDirectory(<<>>) \/ ~Node(<<>>).read
    THEN <<>>                         \* readdirSync throws, caught at line 372
    ELSE sortByText(topLevelForEach(baseUrl, readdirSync(<<>>), <<>>))

\* the key of the returned object, sidebar.ts 386-388
sidebarKey(baseUrl) == <<"/">>

\* sidebar.ts 377-388: the tag group appended, the object returned
allSidebarItems(baseUrl, sidebarItems, tags) ==
    IF tags.threw
    THEN [raised |-> TRUE, key |-> <<>>, list |-> <<>>]
    ELSE [raised |-> FALSE,
          key |-> sidebarKey(baseUrl),
          list |-> IF tags.group # Null THEN Append(sidebarItems, tags.group)
                   ELSE sidebarItems]

generateSidebar(baseUrl, includeTags) ==
    allSidebarItems(baseUrl, structuralItems(baseUrl),
                    IF includeTags THEN generateTagsSidebarGroup(baseUrl)
                    ELSE [threw |-> FALSE, group |-> Null])

---------------------------------------------------------------------------
(* The content trees generateSidebar is run on.                            *)

MaxEntries == 2

OkDir == [kind |-> "dir", stat |-> TRUE, read |-> TRUE]
NoStatDir == [kind |-> "dir", stat |-> FALSE, read |-> TRUE]
NoReadDir == [kind |-> "dir", stat |-> TRUE, read |-> FALSE]

File(title, tags) ==
    [kind |-> "file", stat |-> TRUE, read |-> TRUE, title |-> title, tags |-> tags]

T_T == <<"T">>
T_blank == <<" ">>
Tags_aba == <<"a", ",", " ", "b", ",", " ", "a">>

Plain == File(Absent, Absent)
Tagged == File(Str(T_T), Str(Tags_aba))
ListTagged == File(Str(T_blank), List(<< <<" ", "b">>, <<>> >>))
EmptyStringTags == File(Absent, Str(<<>>))
EmptyListTags == File(Str(T_T), List(<<>>))
NoStatFile == [Tagged EXCEPT !.stat = FALSE]
NoReadFile == [Tagged EXCEPT !.read = FALSE]

\* the entries a tree is made of: a path and what is found there
Options ==
    {[path |-> <<N_index_md>>, node |-> Tagged]}
    \cup {[path |-> <<N_g, N_index_md>>, node |-> n] : n \in {Plain, Tagged, NoStatFile, NoReadFile}}
    \cup {[path |-> <<N_g, N_README_md>>, node |-> n] : n \in {Plain, Tagged}}
    \cup {[path |-> <<N_g, N_a_md>>, node |-> n] :
            n \in {Plain, Tagged, ListTagged, EmptyStringTags, EmptyListTags,
                   NoStatFile, NoReadFile}}
    \cup {[path |-> <<N_g, N_a_MD>>, node |-> n] : n \in {Plain, Tagged}}
    \cup {[path |-> <<N_g, N_n_txt>>, node |-> Tagged]}
    \cup {[path |-> <<N_g, N_hid_md>>, node |-> Tagged]}
    \cup {[path |-> <<N_1g, N_b_md>>, node |-> n] : n \in {Tagged, ListTagged}}
    \cup {[path |-> <<N_index, N_index_md>>, node |-> n] : n \in {Plain, Tagged}}
    \cup {[path |-> <<N_g, N_m, N_a_md>>, node |-> n] : n \in {Plain, Tagged}}
    \cup {[path |-> <<N_hid, N_a_md>>, node |-> Tagged]}
    \cup {[path |-> <<N_g>>, node |-> n] : n \in {NoStatDir, NoReadDir}}
    \cup {[path |-> <<N_g, N_m>>, node |-> n] : n \in {OkDir, NoReadDir}}
    \cup {[path |-> <<N_e>>, node |-> OkDir]}
    \cup {[path |-> <<N_g, N_README_md, N_a_md>>, node |-> Plain]}

\* the sets of at most k options
RECURSIVE UpTo(_)
UpTo(k) ==
    IF k = 0 THEN {{}}
    ELSE UpTo(k - 1) \cup {T \cup {o} : T \in UpTo(k - 1), o \in Options}

\* the tree a set of options describes: the directories above an entry exist
TreeOf(T) ==
    LET chosen == {o.path : o \in T}
        paths == UNION {{SubSeq(p, 1, k) : k \in 1..Len(p)} : p \in chosen}
    IN [p \in paths |->
           IF p \in chosen THEN (CHOOSE o \in T : o.path = p).node ELSE OkDir]

\* one node per path, and entries only below directories
Trees ==
    {TreeOf(T) : T \in {T \in UpTo(MaxEntries) :
                            \A o1, o2 \in T :
                                /\ o1.path = o2.path => o1 = o2
                                /\ (Len(o1.path) < Len(o2.path)
                                    /\ SubSeq(o2.path, 1, Len(o1.path)) = o1.path)
                                   => o1.node.kind = "dir"}}

BaseUrls == {<<"/">>, <<"/", "b", "/">>}

Init ==
    /\ fn = NotRun /\ fnOut = NotRun
    /\ pc = <<>> /\ disk = NotRun /\ made = <<>>
    /\ \/ root = "dir" /\ tree \in Trees
       \/ root \in {"missing", "file", "noread"} /\ tree = <<>>
    /\ rev \in BOOLEAN
    /\ call = NotRun
    /\ sidebar = NotRun

\* one build: generateSidebar(scanRoot, baseUrl, includeTags)
Generate(baseUrl, includeTags) ==
    /\ call = NotRun
    /\ call' = [state |-> "called", baseUrl |-> baseUrl, includeTags |-> includeTags]
    /\ sidebar' = generateSidebar(baseUrl, includeTags)
    /\ UNCHANGED <<fn, fnOut, root, tree, rev, pc, disk, made>>

Next == \E baseUrl \in BaseUrls, includeTags \in BOOLEAN : Generate(baseUrl, includeTags)

Spec == Init /\ [][Next]_vars

---------------------------------------------------------------------------
(* Reading the returned model and the content tree.                        *)

Done == sidebar # NotRun
Returned == Done /\ ~sidebar.raised

Tags_text == <<"T", "a", "g", "s">>

\* the synthetic Tags group is the last element (no directory of the trees
\* above is displayed as "Tags")
HasTagsGroup ==
    /\ Returned /\ call.includeTags
    /\ Len(sidebar.list) > 0
    /\ sidebar.list[Len(sidebar.list)].text = Tags_text

StructuralPart ==
    IF HasTagsGroup THEN SubSeq(sidebar.list, 1, Len(sidebar.list) - 1) ELSE sidebar.list

TagGroups == IF HasTagsGroup THEN sidebar.list[Len(sidebar.list)].items ELSE <<>>

GroupsAt(items) == {i \in 1..Len(items) : IsGroup(items[i])}
LeavesAt(items) == {i \in 1..Len(items) : IsLeaf(items[i])}

\* every sibling list of a model, with the chain of group texts above it
RECURSIVE SiblingLists(_, _)
SiblingLists(items, chain) ==
    {[chain |-> chain, list |-> items]}
    \cup UNION {SiblingLists(items[i].items, Append(chain, items[i].text)) : i \in GroupsAt(items)}

RECURSIVE Sum(_, _)
Sum(f, S) == IF S = {} THEN 0 ELSE LET x == CHOOSE y \in S : TRUE IN f[x] + Sum(f, S \ {x})

\* the number of leaves with a link, at any depth
RECURSIVE LeafCount(_, _)
LeafCount(items, link) ==
    Cardinality({i \in LeavesAt(items) : items[i].link = link})
    + Sum([i \in GroupsAt(items) |-> LeafCount(items[i].items, link)], GroupsAt(items))

\* the number of groups, at any depth
RECURSIVE GroupCount(_)
GroupCount(items) ==
    Cardinality(GroupsAt(items))
    + Sum([i \in GroupsAt(items) |-> GroupCount(items[i].items)], GroupsAt(items))

AllLeaves(items) ==
    UNION {{s.list[i] : i \in LeavesAt(s.list)} : s \in SiblingLists(items, <<>>)}

AllGroups(items) ==
    UNION {{s.list[i] : i \in GroupsAt(s.list)} : s \in SiblingLists(items, <<>>)}

Hidden(name) == name[1] = "."
Name(p) == p[Len(p)]
Above(p) == {SubSeq(p, 1, k) : k \in 1..(Len(p) - 1)}

\* a directory the walks list: it and the directories above it can be
\* stat'ed and listed and are not hidden
Listed(d) ==
    /\ root = "dir"
    /\ \A q \in Above(d) \cup {d} :
          tree[q].kind = "dir" /\ tree[q].stat /\ tree[q].read /\ ~Hidden(Name(q))

\* a markdown file the walks come to and can stat
Found(p) ==
    /\ root = "dir"
    /\ \A q \in Above(p) : Listed(q)
    /\ tree[p].kind = "file" /\ tree[p].stat /\ ~Hidden(Name(p)) /\ IsMarkdown(Name(p))

FoundFiles == {p \in DOMAIN tree : Found(p)}
\* the structural walk starts below the top-level directories
WalkedFiles == {p \in FoundFiles : Len(p) >= 2}
WalkedDirs == {d \in DOMAIN tree : Listed(d) /\ \E p \in WalkedFiles : d \in Above(p)}

\* the URL base of the directory of p
RECURSIVE DirUrl(_, _)
DirUrl(p, baseUrl) ==
    IF Len(p) <= 1 THEN baseUrl ELSE DirUrl(Tail(p), baseUrl \o Head(p) \o <<"/">>)

LinkOf(p) == getFileLink(Name(p), DirUrl(p, call.baseUrl))

\* the tags a file declares, when its front matter can be read: the
\* trimmed, non-empty entries of a comma-separated string or of a list
DeclaredTags(p) ==
    LET tags == tree[p].tags
        entries == IF tags.type = "string" THEN Range(split(tags.value, ","))
                   ELSE IF tags.type = "list" THEN Range(tags.value)
                   ELSE {}
    IN IF tree[p].read THEN {trim(e) : e \in entries} \ {<<>>} ELSE {}

---------------------------------------------------------------------------
\* C1: in the model generateSidebar returns, no sibling list holds two
\* leaves with the same link.
C1_SiblingLinksUnique ==
    Returned =>
        \A s \in SiblingLists(sidebar.list, <<>>) :
            \A i, j \in LeavesAt(s.list) : i # j => s.list[i].link # s.list[j].link

\* C3: every sibling list inside a tag group is part of one sibling list of
\* the structural part with the same chain of group texts above it: its
\* leaves are leaves there (same link, same text), so the tag group is the
\* structural tree restricted to the tag's files and keeps apart what the
\* structural part keeps apart.
C3_TagGroupsMirrorStructure ==
    Returned =>
        \A t \in 1..Len(TagGroups) :
            \A s \in SiblingLists(TagGroups[t].items, <<>>) :
                \E r \in SiblingLists(StructuralPart, <<>>) :
                    /\ r.chain = s.chain
                    /\ \A i \in LeavesAt(s.list) : \E j \in LeavesAt(r.list) : r.list[j] = s.list[i]

\* the links of the leaves of a model and of the files found
LinksIn(items) == {l.link : l \in AllLeaves(items)}

C5_NeverRaises ==
    Done =>
        /\ ~sidebar.raised
        /\ (root = "missing" \/ (root = "dir" /\ DOMAIN tree = {})) => sidebar.list = <<>>

\* a build on a missing root with the tags asked for
C5_Witness == Done /\ root = "missing" /\ call.includeTags /\ sidebar.list = <<>>

\* C6: every group of the returned model, at any depth, has a child, and a
\* tree without any walked markdown file has an empty structural part; so no
\* directory without markdown gets a group and neither a tag group nor the
\* Tags group is empty.
C6_NoEmptyGroup ==
    Returned =>
        /\ \A g \in AllGroups(sidebar.list) : Len(g.items) > 0 /\ AllLeaves(g.items) # {}
        /\ WalkedFiles = {} => StructuralPart = <<>>
        /\ GroupCount(StructuralPart) <= Cardinality(WalkedDirs)

\* a build over a tree with a listed directory that holds no markdown file,
\* beside a directory that has a group
C6_Witness ==
    /\ Returned
    /\ \E d \in DOMAIN tree : Listed(d) /\ d \notin WalkedDirs
    /\ StructuralPart # <<>>

\* the tag group of a tag, as a set of at most one group
TagGroupOf(tag) == {i \in 1..Len(TagGroups) : TagGroups[i].text = tag}

\* C7: with the tags asked for, a file found and read is, for every trimmed
\* non-empty entry t of its tags field, under the group of t with exactly one
\* leaf of its link; every leaf of a tag group is there for a file that
\* declares the tag; no tag group exists that no file declares, and without
\* any declared tag there is no Tags group.
C7_TagMembership ==
    (Returned /\ call.includeTags) =>
        /\ \A p \in FoundFiles : \A t \in DeclaredTags(p) :
              /\ Cardinality(TagGroupOf(t)) = 1
              /\ \A i \in TagGroupOf(t) : LeafCount(TagGroups[i].items, LinkOf(p)) = 1
        /\ \A i \in 1..Len(TagGroups) :
              /\ \E p \in FoundFiles : TagGroups[i].text \in DeclaredTags(p)
              /\ \A l \in LinksIn(TagGroups[i].items) :
                    \E p \in FoundFiles : TagGroups[i].text \in DeclaredTags(p) /\ LinkOf(p) = l
        /\ (\A p \in FoundFiles : DeclaredTags(p) = {}) => ~HasTagsGroup
        /\ \A t \in {<<>>, <<" ">>, <<" ", "b">>} : TagGroupOf(t) = {}

\* a build over a file tagged "a, b, a" beside a file whose tags are an
\* empty string or an empty list
C7_Witness ==
    /\ Returned /\ call.includeTags
    /\ \E p \in FoundFiles :
          /\ tree[p].read /\ tree[p].tags = Str(Tags_aba)
          /\ \A t \in {<<"a">>, <<"b">>} :
                \E i \in TagGroupOf(t) : LeafCount(TagGroups[i].items, LinkOf(p)) = 1
    /\ \E q \in FoundFiles : tree[q].read /\ tree[q].tags \in {Str(<<>>), List(<<>>)}

\* the top-level directories that have a group
TopDirs == {d \in WalkedDirs : Len(d) = 1}

\* C8: the returned model is keyed by the baseUrl given; its list is one
\* group per top-level directory with an item, in ascending order of text,
\* followed by the Tags group exactly when the tags are asked for and some
\* file declares one.
C8_ComposedShape ==
    Returned =>
        /\ sidebar.key = call.baseUrl
        /\ Len(StructuralPart) = Cardinality(TopDirs)
        /\ \A i \in 1..Len(StructuralPart) :
              /\ IsGroup(StructuralPart[i])
              /\ \E d \in TopDirs : StructuralPart[i].text = cleanName(Name(d))
        /\ \A i, j \in 1..Len(StructuralPart) :
              i < j => localeCompare(StructuralPart[i].text, StructuralPart[j].text) <= 0
        /\ HasTagsGroup <=> (call.includeTags /\ \E p \in FoundFiles : DeclaredTags(p) # {})

---------------------------------------------------------------------------
(* The pure helpers, called on their own: cleanName on every string of at  *)
(* most MaxNameLen characters of a small alphabet and on the names of the  *)
(* documentation, getFileLink on entry names and URL bases.                *)

MaxNameLen == 4

CleanAlphabet == {"a", "B", "1", "-", "_", ".", " "}

RECURSIVE Strings(_)
Strings(k) ==
    IF k = 0 THEN {<<>>}
    ELSE Strings(k - 1) \cup {Append(w, c) : w \in Strings(k - 1), c \in CleanAlphabet}

N_post == <<"0","1","-","m","y","_","p","o","s","t","-","n","a","m","e",".","m","d">>
N_README == <<"R","E","A","D","M","E">>
T_MyPostName == <<"M","y"," ","P","o","s","t"," ","N","a","m","e">>
T_Readme == <<"R","e","a","d","m","e">>

CleanInputs == Strings(MaxNameLen) \cup {N_post, N_README}

LinkNames ==
    {N_index_md, N_README_md, N_a_md, N_a_MD, N_b_md, N_n_txt, N_hid_md,
     <<"I","N","D","E","X",".","M","D">>, <<"R","e","a","d","M","e",".","m","d">>,
     <<"i","n","d","e","x",".","x",".","m","d">>, <<"i","n","d","e","x","e","s",".","m","d">>}

LinkBases ==
    {<<"/">>, <<"/","g","/">>, <<"/","i","n","d","e","x","/">>,
     <<"/","g","/","i","n","d","e","x","/">>, <<"/","b","/","i","n","d","e","x","/">>}

Idle ==
    /\ root = "dir" /\ tree = <<>> /\ rev = FALSE
    /\ call = NotRun /\ sidebar = NotRun

InitFn ==
    /\ fn \in {[op |-> "cleanName", name |-> n, base |-> <<>>] : n \in CleanInputs}
           \cup {[op |-> "getFileLink", name |-> n, base |-> b] : n \in LinkNames, b \in LinkBases}
    /\ fnOut = NotRun
    /\ Idle
    /\ pc = <<>> /\ disk = NotRun /\ made = <<>>

CallCleanName ==
    /\ fn.op = "cleanName" /\ fnOut = NotRun
    /\ fnOut' = [state |-> "returned", value |-> cleanName(fn.name)]
    /\ UNCHANGED <<fn, root, tree, rev, call, sidebar, pc, disk, made>>

CallGetFileLink ==
    /\ fn.op = "getFileLink" /\ fnOut = NotRun
    /\ fnOut' = [state |-> "returned", value |-> getFileLink(fn.name, fn.base)]
    /\ UNCHANGED <<fn, root, tree, rev, call, sidebar, pc, disk, made>>

NextFn == CallCleanName \/ CallGetFileLink

SpecFn == InitFn /\ [][NextFn]_vars

Cleaned == fnOut # NotRun /\ fn.op = "cleanName"
Linked == fnOut # NotRun /\ fn.op = "getFileLink"

\* C2: for a base ending in "/", an index or readme name (any letter case)
\* resolves to exactly the base, a base of "/" included, and every other
\* name to the base followed by the name without its extension.
C2_IndexResolvesToBase ==
    (Linked /\ endsWith(fn.base, <<"/">>)) =>
        LET stem == SubSeq(fn.name, 1, Len(fn.name) - Len(extname(fn.name)))
        IN IF IsIndexName(stem)
           THEN fnOut.value = fn.base
           ELSE fnOut.value = fn.base \o stem

IsLetter(c) == IsLower(c) \/ IsUpper(c)
DotCount(w) == Cardinality({i \in 1..Len(w) : w[i] = "."})

\* what both statements of C9 say of cleanName(n) = out, the examples aside
CleanNameRules(n, out) ==
    \* the original name is returned when nothing is left
    /\ out = <<>> => n = <<>>
    \* every hyphen and underscore is replaced
    /\ (\E i \in 1..Len(out) : out[i] \in {"-", "_"}) => out = n
    \* the first letter of every word is a capital, and the text is trimmed
    /\ out # n =>
          /\ out[1] # " " /\ out[Len(out)] # " "
          /\ \A i \in 1..Len(out) : IsLower(out[i]) => (i > 1 /\ IsWordChar(out[i-1]))
    \* one leading ordering prefix is stripped: digits and a separator ...
    /\ (Len(n) >= 3 /\ n[1] \in Digits /\ n[2] \in {"-", "_"} /\ IsLetter(n[3]))
          => out[1] = toUpperCase(n[3])
    \* ... or a lone separator
    /\ (Len(n) >= 2 /\ n[1] \in {"-", "_"} /\ IsLetter(n[2])) => out[1] = toUpperCase(n[2])
    \* a trailing extension is stripped
    /\ (LastDot(n) > 0 /\ LastDot(n) < Len(n)
            /\ \A j \in (LastDot(n) + 1)..Len(n) : IsWordChar(n[j]))
          => (out = n \/ DotCount(out) = DotCount(n) - 1)

\* C9 as first stated: the rules of cleanName, with
\* cleanName("01-my_post-name.md") = "My Post Name" and
\* cleanName("README") = "Readme".
C9_CleanNameAsStated ==
    Cleaned =>
        /\ CleanNameRules(fn.name, fnOut.value)
        /\ fn.name = N_post => fnOut.value = T_MyPostName
        /\ fn.name = N_README => fnOut.value = T_Readme

\* C9, amended: the rules of cleanName, with
\* cleanName("01-my_post-name.md") = "My Post Name" and
\* cleanName("README") = "README": only the first character of a word is
\* changed, the rest keeps its case.
C9_CleanName ==
    Cleaned =>
        /\ CleanNameRules(fn.name, fnOut.value)
        /\ fn.name = N_post => fnOut.value = T_MyPostName
        /\ fn.name = N_README => fnOut.value = N_README

\* cleanName has returned for "README"
C9_Witness == Cleaned /\ fn.name = N_README /\ fnOut.value = N_README

---------------------------------------------------------------------------
(* The post scaffolder, .bin/new.js: invocations with the same title on    *)
(* the same day, which compute the same filePath.  Each await is a step;   *)
(* between the steps of one invocation the other may run.                  *)

MaxInvocations == 2
Procs == 1..MaxInvocations

NoFile == [state |-> "none", by |-> 0]

\* what is on disk at directoryPath and filePath before the invocations
Disks ==
    {[year |-> FALSE, month |-> FALSE, file |-> NoFile],
     [year |-> TRUE, month |-> FALSE, file |-> NoFile],
     [year |-> TRUE, month |-> TRUE, file |-> NoFile],
     [year |-> TRUE, month |-> TRUE, file |-> [state |-> "full", by |-> 0]]}

InitNew ==
    /\ fn = NotRun /\ fnOut = NotRun
    /\ Idle
    /\ pc \in [Procs -> {[at |-> "parse", title |-> t] : t \in BOOLEAN}]
    /\ disk \in Disks
    /\ made = [p \in Procs |-> {}]

goto(p, at) == pc' = [pc EXCEPT ![p].at = at]
rest == <<fn, fnOut, root, tree, rev, call, sidebar>>

\* new.js 42-46: no title is a usage error
Parse(p) ==
    /\ pc[p].at = "parse"
    /\ goto(p, IF pc[p].title THEN "access" ELSE "exit1")
    /\ UNCHANGED <<disk, made, rest>>

\* new.js 77-86: access(filePath) resolves (the file exists) or rejects
\* with ENOENT
Access(p) ==
    /\ pc[p].at = "access"
    /\ goto(p, IF disk.file.state # "none" THEN "exit1" ELSE "mkdir")
    /\ UNCHANGED <<disk, made, rest>>

\* new.js 83-85, 96-99: access rejects with another error
AccessFails(p) ==
    /\ pc[p].at = "access"
    /\ goto(p, "exit1")
    /\ UNCHANGED <<disk, made, rest>>

\* new.js 89: mkdir(directoryPath, { recursive: true }) resolves
Mkdir(p) ==
    /\ pc[p].at = "mkdir"
    /\ disk' = [disk EXCEPT !.year = TRUE, !.month = TRUE]
    /\ made' = [made EXCEPT ![p] = @ \cup {d \in {"year", "month"} : ~disk[d]}]
    /\ goto(p, "write")
    /\ UNCHANGED rest

\* new.js 89, 96-99: mkdir rejects, before or after it made the year
MkdirFails(p) ==
    /\ pc[p].at = "mkdir"
    /\ \E partial \in BOOLEAN :
          /\ disk' = IF partial THEN [disk EXCEPT !.year = TRUE] ELSE disk
          /\ made' = IF partial /\ ~disk.year
                     THEN [made EXCEPT ![p] = @ \cup {"year"}]
                     ELSE made
    /\ goto(p, "exit1")
    /\ UNCHANGED rest

\* new.js 92-95: writeFile(filePath, data) resolves: the default flag 'w'
\* creates the file or truncates the one that is there
Write(p) ==
    /\ pc[p].at = "write"
    /\ disk' = [disk EXCEPT !.file = [state |-> "full", by |-> p]]
    /\ made' = [made EXCEPT ![p] = @ \cup {"file"}]
    /\ goto(p, "exit0")
    /\ UNCHANGED rest

\* new.js 93, 96-99: writeFile rejects, before or after it opened the file
WriteFails(p) ==
    /\ pc[p].at = "write"
    /\ \E partial \in BOOLEAN :
          /\ disk' = IF partial
                     THEN [disk EXCEPT !.file = [state |-> "partial", by |-> p]]
                     ELSE disk
          /\ made' = IF partial THEN [made EXCEPT ![p] = @ \cup {"file"}] ELSE made
    /\ goto(p, "exit1")
    /\ UNCHANGED rest

NextNew ==
    \E p \in Procs :
        \/ Parse(p) \/ Access(p) \/ AccessFails(p)
        \/ Mkdir(p) \/ MkdirFails(p)
        \/ Write(p) \/ WriteFails(p)

SpecNew == InitNew /\ [][NextNew]_vars

\* C10: an invocation that exits non-zero has created no file and no
\* directory; a file that exists is never written again; and of two
\* invocations at most one exits with success.
C10_AllOrNothing ==
    /\ \A p \in Procs : pc[p].at = "exit1" => made[p] = {}
    /\ \A p, q \in Procs : (p # q /\ "file" \in made[p]) => "file" \notin made[q]
    /\ \A p, q \in Procs : p # q => ~(pc[p].at = "exit0" /\ pc[q].at = "exit0")

---------------------------------------------------------------------------
(* generateSidebarItems called on its own, on any directory of a tree.     *)

InitWalk == Init

Walk(dirPath, baseUrl) ==
    /\ fn = NotRun /\ call = NotRun
    /\ fn' = [op |-> "generateSidebarItems", dirPath |-> dirPath, baseUrl |-> baseUrl]
    /\ fnOut' = generateSidebarItems(dirPath, baseUrl)
    /\ UNCHANGED <<root, tree, rev, call, sidebar, pc, disk, made>>

NextWalk == \E dirPath \in {<<>>} \cup DOMAIN tree, baseUrl \in BaseUrls : Walk(dirPath, baseUrl)

SpecWalk == InitWalk /\ [][NextWalk]_vars

Walked == fn # NotRun /\ fn.op = "generateSidebarItems"

\* every entry of the tree, and the root, can be stat'ed
AllStatable == root # "missing" /\ \A p \in DOMAIN tree : tree[p].stat

\* the names in a directory
EntriesOf(d) ==
    {Name(q) : q \in {q \in DOMAIN tree : Len(q) = Len(d) + 1 /\ SubSeq(q, 1, Len(d)) = d}}

\* an entry that gets an item: a markdown file, or a directory that is
\* listed and holds such an entry, neither of them hidden
RECURSIVE Contributes(_, _)
Contributes(d, e) ==
    LET p == Append(d, e) IN
    /\ ~Hidden(e)
    /\ \/ tree[p].kind = "file" /\ IsMarkdown(e)
       \/ tree[p].kind = "dir" /\ tree[p].read /\ \E e2 \in EntriesOf(p) : Contributes(p, e2)

\* 0 for an index/readme markdown file, 1 for a directory, 2 for a plain file
Partition(d, e) ==
    IF tree[Append(d, e)].kind = "dir" THEN 1
    ELSE IF LowerCased(e) \in {LowerCased(N_index_md), LowerCased(N_README_md)} THEN 0
    ELSE 2

\* the entries that get an item, by partition and then by raw name
StatedOrder(d) ==
    LET C == {e \in EntriesOf(d) : Contributes(d, e)} IN
    {s \in [1..Cardinality(C) -> C] :
        \A i, j \in DOMAIN s :
            i < j => \/ Partition(d, s[i]) < Partition(d, s[j])
                     \/ /\ Partition(d, s[i]) = Partition(d, s[j])
                        /\ localeCompare(s[i], s[j]) < 0}

\* the item is the item of entry e of directory d
ItemOfEntry(item, d, e, baseUrl) ==
    IF tree[Append(d, e)].kind = "dir"
    THEN IsGroup(item) /\ item.text = cleanName(e)
    ELSE IsLeaf(item) /\ item.link = getFileLink(e, withSlash(baseUrl))

\* C11: when every entry can be stat'ed, the items generateSidebarItems
\* returns for a directory it can list are: the leaves of the index/readme
\* markdown files, then the groups of the directories, then the leaves of
\* the other markdown files, each partition in ascending localeCompare of
\* the raw entry names; hidden entries and files that are not markdown
\* have no item.
C11_WalkOrder ==
    (Walked /\ AllStatable /\ root = "dir"
        /\ (fn.dirPath # <<>> => tree[fn.dirPath].kind = "dir" /\ tree[fn.dirPath].read))
    => /\ ~fnOut.threw
       /\ \E s \in StatedOrder(fn.dirPath) :
              /\ Len(fnOut.items) = Len(s)
              /\ \A k \in DOMAIN s :
                     ItemOfEntry(fnOut.items[k], fn.dirPath, s[k], fn.baseUrl)

---------------------------------------------------------------------------
(* insertPageIntoStructure called any number of times on a list that       *)
(* starts empty, and the Tags group built from a map of tags.              *)

MaxCalls == 3

N_2025 == <<"2","0","2","5">>
N_may == <<"m","a","y">>
N_june == <<"j","u","n","e">>
N_intro_md == <<"i","n","t","r","o",".","m","d">>
N_advanced_md == <<"a","d","v","a","n","c","e","d",".","m","d">>
T_Intro == <<"I","n","t","r","o">>
T_Advanced == <<"A","d","v","a","n","c","e","d">>
L_p == <<"/","p">>
L_q == <<"/","q">>
T_tutorial == <<"t","u","t","o","r","i","a","l">>

\* the segments, links and texts of the calls
Segments ==
    {<<N_2025, N_may, N_intro_md>>, <<N_2025, N_june, N_advanced_md>>,
     <<N_g, N_a_md>>, <<N_1g, N_b_md>>, <<N_a_md>>}
PageCalls ==
    {[segments |-> s, pageLink |-> l, pageText |-> x] :
        s \in Segments, l \in {L_p, L_q}, x \in {T_Intro, T_Advanced}}
    \cup {[segments |-> <<>>, pageLink |-> L_p, pageText |-> T_Intro]}

\* the two pages of the tag maps, as scanFilesForTags records them
TagPages ==
    <<[link |-> <<"/">> \o N_2025 \o <<"/">> \o N_may \o <<"/","i","n","t","r","o">>,
       text |-> T_Intro,
       relativePath |-> N_2025 \o <<"/">> \o N_may \o <<"/">> \o N_intro_md],
      [link |-> <<"/">> \o N_2025 \o <<"/">> \o N_june \o <<"/","a","d","v","a","n","c","e","d">>,
       text |-> T_Advanced,
       relativePath |-> N_2025 \o <<"/">> \o N_june \o <<"/">> \o N_advanced_md]>>

TagNames == {T_tutorial, <<"a">>, <<"A">>}

\* the maps of distinct tags, in any insertion order
TagMaps ==
    {[i \in DOMAIN s |-> [tag |-> s[i], pages |-> TagPages]] :
        s \in {s \in UNION {[1..n -> TagNames] : n \in 1..Cardinality(TagNames)} :
                  \A i, j \in DOMAIN s : i # j => s[i] # s[j]}}

InitInsert ==
    /\ fn = [op |-> "insertPageIntoStructure", calls |-> {}]
    /\ fnOut = [state |-> "returned", value |-> <<>>]
    /\ Idle
    /\ pc = <<>> /\ disk = NotRun /\ made = <<>>

\* one more call on the list the calls before left
InsertPage(c) ==
    /\ fn.op = "insertPageIntoStructure"
    /\ Cardinality(fn.calls) < MaxCalls
    /\ fnOut' = [state |-> "returned",
                 value |-> insertPageIntoStructure(fnOut.value, c.segments,
                                                   c.pageLink, c.pageText)]
    /\ fn' = [fn EXCEPT !.calls = @ \cup {c}]
    /\ UNCHANGED <<root, tree, rev, call, sidebar, pc, disk, made>>

\* the Tags group of a map of tags
GroupTags(tagsMap) ==
    /\ fn.op = "insertPageIntoStructure" /\ fn.calls = {}
    /\ fn' = [op |-> "generateTagsSidebarGroup", tagsMap |-> tagsMap]
    /\ fnOut' = [state |-> "returned",
                 value |-> tagsGroup([threw |-> FALSE, map |-> tagsMap]).group.items]
    /\ UNCHANGED <<root, tree, rev, call, sidebar, pc, disk, made>>

NextInsert ==
    \/ \E c \in PageCalls : InsertPage(c)
    \/ \E tagsMap \in TagMaps : GroupTags(tagsMap)

SpecInsert == InitInsert /\ [][NextInsert]_vars

Inserting == fn.op = "insertPageIntoStructure"
Grouping == fn.op = "generateTagsSidebarGroup"

\* a sibling list in order: groups first, groups and leaves each in
\* ascending localeCompare of their text, no two groups with one text, no
\* two leaves with one link
ListInOrder(list) ==
    /\ \A i \in GroupsAt(list), j \in LeavesAt(list) : i < j
    /\ \A i, j \in GroupsAt(list) :
          i < j => localeCompare(list[i].text, list[j].text) <= 0 /\ list[i].text # list[j].text
    /\ \A i, j \in LeavesAt(list) :
          i < j => localeCompare(list[i].text, list[j].text) <= 0 /\ list[i].link # list[j].link

StructureInOrder(items) == \A s \in SiblingLists(items, <<>>) : ListInOrder(s.list)

\* the page of a call is in the structure: a leaf with its link, below the
\* groups of its directory segments
PagePresent(items, segments, pageLink) ==
    \E s \in SiblingLists(items, <<>>) :
        /\ s.chain = [k \in 1..(Len(segments) - 1) |-> cleanName(segments[k])]
        /\ \E i \in LeavesAt(s.list) : s.list[i].link = pageLink

\* C12: after any calls of insertPageIntoStructure on a list that starts
\* empty, every level has its groups before its leaves, the groups and the
\* leaves each in ascending locale order of their text, no two groups of
\* one name, no two leaves of one link, and the page of every call made;
\* and the groups of the tags are in ascending locale order of the tag
\* names, each built the same way from the pages of its tag.
C12_InsertionOrder ==
    /\ Inserting =>
          /\ StructureInOrder(fnOut.value)
          /\ \A c \in fn.calls :
                 c.segments # <<>> => PagePresent(fnOut.value, c.segments, c.pageLink)
    /\ Grouping =>
          /\ Len(fnOut.value) = Len(fn.tagsMap)
          /\ {fnOut.value[i].text : i \in DOMAIN fnOut.value}
                 = {fn.tagsMap[i].tag : i \in DOMAIN fn.tagsMap}
          /\ \A i, j \in DOMAIN fnOut.value :
                 i < j => localeCompare(fnOut.value[i].text, fnOut.value[j].text) < 0
          /\ \A i \in DOMAIN fnOut.value :
                 /\ IsGroup(fnOut.value[i])
                 /\ StructureInOrder(fnOut.value[i].items)
                 /\ \A k \in DOMAIN TagPages :
                        PagePresent(fnOut.value[i].items,
                                    filterBoolean(split(TagPages[k].relativePath, "/")),
                                    TagPages[k].link)

\* the example of two pages under 2025/may and 2025/june: one group 2025
\* with the groups June and May, in this order, whichever call came first
TwoMonths(link1, link2) ==
    <<Group(N_2025, <<Group(cleanName(N_june), <<Leaf(T_Advanced, link2)>>),
                      Group(cleanName(N_may), <<Leaf(T_Intro, link1)>>)>>)>>

C12_Witness ==
    /\ Inserting
    /\ [segments |-> <<N_2025, N_may, N_intro_md>>, pageLink |-> L_p, pageText |-> T_Intro]
           \in fn.calls
    /\ [segments |-> <<N_2025, N_june, N_advanced_md>>, pageLink |-> L_q, pageText |-> T_Advanced]
           \in fn.calls
    /\ \E c \in fn.calls : c.segments = <<N_g, N_a_md>>
    /\ Len(fnOut.value) = 2
    /\ fnOut.value[1] = TwoMonths(L_p, L_q)[1]
    /\ fnOut.value[2].text = cleanName(N_g)

====
